---------------------------- MODULE Spec2Model ----------------------------
(* Model of the union-flattening pre-pass of assignment                    *)
(* (analyzer/assign/unions.rs) and of the type-assertion checks            *)
(* (analyzer/expr/type_cast.rs) of stc_ts_file_analyzer.                   *)
(*                                                                         *)
(* A type is a record [k, v, ts]: k is the variant, v its name or literal  *)
(* value, ts its children (union members, tuple element types, type        *)
(* literal members, the element type of an array).  Spans and metadata are *)
(* left out: type_eq ignores them.                                         *)
EXTENDS Integers, Sequences, FiniteSets, TLC

VARIABLES op, args, env, res, storage

vars == <<op, args, env, res, storage>>

-----------------------------------------------------------------------------
(* Bounds *)

\* longest tuple / type literal handed to the flattening pass
MaxElems == 3

\* longest tuple handed to the type-cast checks
MaxCastElems == 3

-----------------------------------------------------------------------------
(* The type model *)

Ty(k, v, ts) == [k |-> k, v |-> v, ts |-> ts]

Keyword(kind) == Ty("Keyword", kind, <<>>)

Lit(value) == Ty("Lit", value, <<>>)

Union(types) == Ty("Union", "", types)

Intersection(types) == Ty("Intersection", "", types)

Tuple(elems) == Ty("Tuple", "", elems)

TypeLit(members) == Ty("TypeLit", "", members)

Array(elem) == Ty("Array", "", <<elem>>)

Function(name) == Ty("Function", name, <<>>)

Interface(name) == Ty("Interface", name, <<>>)

Class(name) == Ty("Class", name, <<>>)

ClassDef(name) == Ty("ClassDef", name, <<>>)

Ref(name) == Ty("Ref", name, <<>>)

\* members of a type literal
Property(name, type_ann) == Ty("Property", name, type_ann)

Index(params, type_ann) == Ty("Index", params, type_ann)

Method(name) == Ty("Method", name, <<>>)

\* Error values share the shape of types so that a VResult<Type> is one value
Error(name) == Ty("Error", name, <<>>)

IsErr(t) == t.k = "Error"

\* the RTsLit variant of a literal value
LitKind(t) ==
  CASE t.v \in {"1", "2"} -> "Number"
    [] t.v \in {"a", "b"} -> "Str"
    [] t.v \in {"true", "false"} -> "Bool"
    [] t.v \in {"1n", "2n"} -> "BigInt"
    [] OTHER -> "None"

IsLitOf(t, kind) == t.k = "Lit" /\ LitKind(t) = kind

IsKwd(t, kind) == t.k = "Keyword" /\ t.v = kind

TypeEq(a, b) == a = b

\* sequence helpers
RECURSIVE Concat(_)
Concat(ss) == IF ss = <<>> THEN <<>> ELSE Head(ss) \o Concat(Tail(ss))

FirstErr(ss) == ss[CHOOSE i \in 1..Len(ss) : IsErr(ss[i]) /\ \A j \in 1..(i - 1) : ~IsErr(ss[j])]

HasErr(ss) == \E i \in 1..Len(ss) : IsErr(ss[i])

-----------------------------------------------------------------------------
(* Collaborators: declarations in scope, normalize                         *)

\* type RU = "a" | "b";  type RN = 1;  RX names nothing: its resolution fails
RefTarget(name) ==
  CASE name = "RU" -> Union(<<Lit("a"), Lit("b")>>)
    [] name = "RN" -> Lit("1")
    [] OTHER -> Error("NoSuchType")

\* normalize resolves a reference to the shape it names and leaves a concrete shape alone
Normalize(t) == IF t.k = "Ref" THEN RefTarget(t.v) ELSE t


\* Fix of a freshly built union, as the specification states it: members that
\* are unions themselves are spliced in, one level, nothing is deduplicated
RECURSIVE Splice(_)
Splice(types) ==
  IF types = <<>> THEN <<>>
  ELSE (IF Head(types).k = "Union" THEN Head(types).ts ELSE <<Head(types)>>) \o Splice(Tail(types))

Fixed(t) == IF t.k = "Union" THEN Union(Splice(t.ts)) ELSE t

-----------------------------------------------------------------------------
(* analyzer/assign/unions.rs *)

NoUnion == [some |-> FALSE, types |-> <<>>]

SomeUnion(types) == [some |-> TRUE, types |-> types]

\* the members of the union an element type stands for: `boolean` is true | false
ExpandUnionForAssignmentMembersReversed(t) ==
  LET n == Normalize(t) IN
    IF IsErr(n) THEN NoUnion
    ELSE IF IsKwd(n, "boolean") THEN SomeUnion(<<Lit("false"), Lit("true")>>)
    ELSE IF n.k = "Union" THEN SomeUnion([i \in 1..Len(n.ts) |-> n.ts[Len(n.ts) + 1 - i]])
    ELSE NoUnion

ExpandUnionForAssignment(t) ==
  LET n == Normalize(t) IN
    IF IsErr(n) THEN NoUnion
    ELSE IF IsKwd(n, "boolean") THEN SomeUnion(<<Lit("true"), Lit("false")>>)
    ELSE IF n.k = "Union" THEN SomeUnion(n.ts)
    ELSE NoUnion

\* append_tuple_element_to_type: the accumulator `to` after appending an
\* element of type el, or the error that ends the append
RECURSIVE AppendTupleElementToType(_, _)

\* for (idx, el_ty) in el_ty.types: one copy of `to` per member, the member appended to it
RECURSIVE TupleCopies(_, _)
TupleCopies(to, types) ==
  IF types = <<>> THEN <<>>
  ELSE <<AppendTupleElementToType(to, Head(types))>> \o TupleCopies(to, Tail(types))

\* for to in &mut to.types: the element appended to every branch
RECURSIVE TupleBranches(_, _)
TupleBranches(tos, el) ==
  IF tos = <<>> THEN <<>>
  ELSE <<AppendTupleElementToType(Head(tos), el)>> \o TupleBranches(Tail(tos), el)

AppendTupleElementToType(to, el) ==
  LET ex == ExpandUnionForAssignment(el) IN
    IF ex.some
    THEN LET to_types == TupleCopies(to, ex.types) IN
           IF HasErr(to_types) THEN FirstErr(to_types) ELSE Union(to_types)
    ELSE IF to.k = "Union"
    THEN LET branches == TupleBranches(to.ts, el) IN
           IF HasErr(branches) THEN FirstErr(branches) ELSE Union(branches)
    ELSE IF to.k = "Tuple" THEN Tuple(Append(to.ts, el))
    ELSE Error("SimpleAssignFailed")

\* append_type_element_to_type: the same for the members of a type literal;
\* only a property with a type annotation is distributed
RECURSIVE AppendTypeElementToType(_, _)

RECURSIVE TypeLitCopies(_, _, _)
TypeLitCopies(to, name, types) ==
  IF types = <<>> THEN <<>>
  ELSE <<AppendTypeElementToType(to, Property(name, <<Head(types)>>))>> \o TypeLitCopies(to, name, Tail(types))

RECURSIVE TypeLitBranches(_, _)
TypeLitBranches(tos, el) ==
  IF tos = <<>> THEN <<>>
  ELSE <<AppendTypeElementToType(Head(tos), el)>> \o TypeLitBranches(Tail(tos), el)

AppendTypeElementToType(to, el) ==
  LET ex == IF el.k = "Property" /\ Len(el.ts) = 1 THEN ExpandUnionForAssignment(el.ts[1]) ELSE NoUnion IN
    IF ex.some
    THEN LET to_types == TypeLitCopies(to, el.v, ex.types) IN
           IF HasErr(to_types) THEN FirstErr(to_types) ELSE Fixed(Union(to_types))
    ELSE IF to.k = "Union"
    THEN LET branches == TypeLitBranches(to.ts, el) IN
           IF HasErr(branches) THEN FirstErr(branches) ELSE Union(branches)
    ELSE IF to.k = "TypeLit" THEN TypeLit(Append(to.ts, el))
    ELSE Error("SimpleAssignFailed")

\* the for loops of flatten_unions_for_assignment: `?` ends the fold at the first error
RECURSIVE FoldAppend(_, _, _)
FoldAppend(to, els, tuple) ==
  IF els = <<>> \/ IsErr(to) THEN to
  ELSE FoldAppend(IF tuple THEN AppendTupleElementToType(to, Head(els))
                  ELSE AppendTypeElementToType(to, Head(els)),
                  Tail(els), tuple)

FlattenUnionsForAssignment(ty) ==
  LET n == Normalize(ty) IN
    IF IsErr(n) THEN n
    ELSE IF n.k = "Tuple" THEN FoldAppend(Tuple(<<>>), n.ts, TRUE)
    ELSE IF n.k = "TypeLit" THEN FoldAppend(TypeLit(<<>>), n.ts, FALSE)
    ELSE n

-----------------------------------------------------------------------------
(* Collaborators: the Assignability Engine                                 *)

Modes == {"reject", "sound", "accept"}

\* a plain structural assignability of `right` to `left`
RECURSIVE AssignSound(_, _)
AssignSound(left, right) ==
  \/ left = right
  \/ IsKwd(left, "any")
  \/ right.k = "Union" /\ \A i \in 1..Len(right.ts) : AssignSound(left, right.ts[i])
  \/ right.k # "Union" /\ left.k = "Union" /\ \E i \in 1..Len(left.ts) : AssignSound(left.ts[i], right)
  \/ IsLitOf(right, "Number") /\ IsKwd(left, "number")
  \/ IsLitOf(right, "Str") /\ IsKwd(left, "string")
  \/ IsLitOf(right, "Bool") /\ IsKwd(left, "boolean")
  \/ IsLitOf(right, "BigInt") /\ IsKwd(left, "bigint")
  \/ /\ left.k = "Tuple"
     /\ right.k = "Tuple"
     /\ Len(left.ts) = Len(right.ts)
     /\ \A i \in 1..Len(left.ts) : AssignSound(left.ts[i], right.ts[i])

\* assign_with_opts(data, opts, left, right) under the environment e: "Ok" or "Err"
AssignWithOpts(e, left, right) ==
  CASE e.assign = "accept" -> "Ok"
    [] e.assign = "reject" -> "Err"
    [] OTHER -> IF AssignSound(left, right) THEN "Ok" ELSE "Err"

-----------------------------------------------------------------------------
(* assign_to_union *)

NoneResult == Ty("None", "", <<>>)

\* Some(verdict); ts records the two types handed to assign_with_opts
SomeResult(verdict, l, r) == Ty("Some", verdict, <<l, r>>)

\* assign_to_union without the is_union_type test
AssignToUnionAnyShape(e, l, r) ==
  LET r_res == FlattenUnionsForAssignment(r) IN
    IF IsErr(r_res) THEN NoneResult
    ELSE SomeResult(AssignWithOpts(e, l, r_res), l, r_res)

AssignToUnion(e, l, r) ==
  LET r_res == FlattenUnionsForAssignment(r) IN
    IF IsErr(r_res) THEN NoneResult
    ELSE IF r_res.k = "Union" THEN SomeResult(AssignWithOpts(e, l, r_res), l, r_res)
    ELSE NoneResult

-----------------------------------------------------------------------------
(* Inputs of the flattening pass *)

ElemAtoms == {Lit("a"), Lit("1"), Keyword("boolean"), Keyword("number"), Ref("RX"), Ref("RU")}

ElemUnions ==
  { Union(<<Lit("a"), Lit("b")>>),
    Union(<<Lit("1"), Lit("2")>>),
    Union(<<Lit("a"), Keyword("boolean")>>),
    Union(<<Lit("2"), Lit("1"), Lit("b")>>) }

ElemTypes == ElemAtoms \cup ElemUnions

SeqsUpTo(S, n) == UNION {[1..m -> S] : m \in 0..n}

TupleCandidates == {Tuple(es) : es \in SeqsUpTo(ElemTypes, MaxElems)}

MemberTypes ==
  { Property("x", <<>>),
    Property("x", <<Lit("a")>>),
    Property("x", <<Union(<<Lit("a"), Lit("b")>>)>>),
    Property("x", <<Keyword("boolean")>>),
    Property("y", <<Lit("1")>>),
    Property("y", <<Union(<<Lit("1"), Keyword("boolean")>>)>>),
    Index("string", <<Union(<<Lit("1"), Lit("2")>>)>>),
    Method("m") }

TypeLitCandidates == {TypeLit(ms) : ms \in SeqsUpTo(MemberTypes, MaxElems)}

OtherCandidates ==
  {Keyword("number"), Keyword("boolean"), Union(<<Lit("a"), Lit("b")>>), Ref("RX"), Ref("RU"),
   Array(Union(<<Lit("a"), Lit("b")>>))}

Candidates == TupleCandidates \cup TypeLitCandidates \cup OtherCandidates

\* lhs of the doc comment of assign_to_union, and a second target
Targets ==
  { Union(<<Tuple(<<Lit("a"), Keyword("number")>>), Tuple(<<Lit("b"), Keyword("number")>>),
            Tuple(<<Lit("b"), Keyword("string")>>)>>),
    Union(<<Tuple(<<Lit("a")>>), Tuple(<<Lit("true")>>)>>) }

-----------------------------------------------------------------------------
(* State: the last query (op, args), the collaborators' behaviour during it *)
(* (env), its result (res) and the diagnostics it reported (storage)       *)

Env(a, x, n) == [assign |-> a, extends |-> x, num |-> n]

Init ==
  /\ op = "idle"
  /\ args = <<>>
  /\ env = Env("sound", "sound", "sound")
  /\ res = Ty("Idle", "", <<>>)
  /\ storage = <<>>

DoFlattenUnionsForAssignment ==
  /\ op = "idle"
  /\ \E ty \in Candidates :
    /\ op' = "flatten_unions_for_assignment"
    /\ args' = <<ty>>
    /\ res' = FlattenUnionsForAssignment(ty)
    /\ UNCHANGED <<env, storage>>

DoAssignToUnion ==
  /\ op = "idle"
  /\ \E l \in Targets, r \in Candidates, a \in Modes :
    /\ op' = "assign_to_union"
    /\ args' = <<l, r>>
    /\ env' = Env(a, "sound", "sound")
    /\ res' = AssignToUnion(env', l, r)
    /\ UNCHANGED storage

\* the query returns to its caller; the analyzer is ready for the next one
Return ==
  /\ op # "idle"
  /\ op' = "idle"
  /\ args' = <<>>
  /\ env' = Env("sound", "sound", "sound")
  /\ res' = Ty("Idle", "", <<>>)
  /\ storage' = <<>>

NextUnions == DoFlattenUnionsForAssignment \/ DoAssignToUnion \/ Return

SpecUnions == Init /\ [][NextUnions]_vars

-----------------------------------------------------------------------------
(* Collaborators of the type-cast checks *)

\* interface J extends I {}   class D extends C {}
DeclaredParent(t) ==
  CASE t = Interface("J") -> Interface("I")
    [] t = Class("D") -> Class("C")
    [] OTHER -> t

\* extends(child, parent): "true", "false", or "none" when the relation does not apply
Extends(e, child, parent) ==
  CASE e.extends = "accept" -> "true"
    [] e.extends = "reject" -> "none"
    [] OTHER -> IF child = parent \/ (DeclaredParent(child) = parent /\ child # parent) THEN "true"
                ELSE IF child.k \in {"Interface", "Class"} /\ parent.k \in {"Interface", "Class"} THEN "false"
                ELSE "none"

\* can_be_casted_to_number_in_rhs(to)
CanBeCastedToNumberInRhs(e, to) ==
  CASE e.num = "accept" -> TRUE
    [] e.num = "reject" -> FALSE
    [] OTHER -> IsKwd(to, "number") \/ IsLitOf(to, "Number")

\* expand_top_ref: the type a reference names, or an error
ExpandTopRef(t) == RefTarget(t.v)

\* expand with full and expand_union: every reference in the type is resolved;
\* the first one that cannot be is the error
RECURSIVE Expand(_)
RECURSIVE ExpandAll(_)
ExpandAll(types) ==
  IF types = <<>> THEN <<>> ELSE <<Expand(Head(types))>> \o ExpandAll(Tail(types))

Expand(t) ==
  IF t.k = "Ref" THEN RefTarget(t.v)
  ELSE LET ts == ExpandAll(t.ts) IN
         IF HasErr(ts) THEN FirstErr(ts) ELSE Ty(t.k, t.v, ts)

\* make_instance_type: an asserted type that names a class is its instance type
MakeInstanceType(t) == IF t.k = "ClassDef" THEN Class(t.v) ELSE t

IsAny(t) == IsKwd(t, "any")

IsStr(t) == IsKwd(t, "string")

IsNum(t) == IsKwd(t, "number") \/ IsLitOf(t, "Number")

IsFnType(t) == t.k = "Function"

IsTypeLit(t) == t.k = "TypeLit"

IsClass(t) == t.k = "Class"

IsInterface(t) == t.k = "Interface"

\* is_str_or_union: the string keyword, a string literal, or a union of only such
RECURSIVE IsStrOrUnion(_)
IsStrOrUnion(t) ==
  \/ IsKwd(t, "string")
  \/ IsLitOf(t, "Str")
  \/ t.k = "Union" /\ \A i \in 1..Len(t.ts) : IsStrOrUnion(t.ts[i])

-----------------------------------------------------------------------------
(* analyzer/expr/type_cast.rs: castable *)

LitToKeyword(from, to) ==
  \/ IsLitOf(from, "Number") /\ IsKwd(to, "number")
  \/ IsLitOf(from, "Str") /\ IsKwd(to, "string")
  \/ IsLitOf(from, "Bool") /\ IsKwd(to, "boolean")
  \/ IsLitOf(from, "BigInt") /\ IsKwd(to, "bigint")

\* the literal-to-literal arm: Number, Str and BigInt pairs
LitToLit(from, to) ==
  \/ IsLitOf(from, "Number") /\ IsLitOf(to, "Number")
  \/ IsLitOf(from, "Str") /\ IsLitOf(to, "Str")
  \/ IsLitOf(from, "BigInt") /\ IsLitOf(to, "BigInt")

\* two index signatures with the same parameters whose annotations are
\* assignable in neither direction
IndexConflict(e, lt, rt) ==
  \E i \in 1..Len(lt.ts), j \in 1..Len(rt.ts) :
    LET lm == lt.ts[i]
        rm == rt.ts[j]
    IN /\ lm.k = "Index"
       /\ rm.k = "Index"
       /\ TypeEq(lm.v, rm.v)
       /\ Len(lm.ts) = 1
       /\ Len(rm.ts) = 1
       /\ AssignWithOpts(e, lm.ts[1], rm.ts[1]) = "Err"
       /\ AssignWithOpts(e, rm.ts[1], lm.ts[1]) = "Err"

\* the arm of castable that returns for (from, to)
CastableRule(e, from, to) ==
  IF IsAny(from) \/ IsKwd(from, "null") \/ IsKwd(from, "undefined") THEN "overlaps_all"
  ELSE IF TypeEq(from, to) THEN "type_eq"
  ELSE IF LitToKeyword(from, to) THEN "lit_to_keyword"
  ELSE IF LitToLit(from, to) THEN "lit_to_lit"
  ELSE IF from.k = "Function" /\ to = Interface("Function") THEN "fn_to_Function"
  ELSE IF IsFnType(from) /\ IsFnType(to) THEN "fn_to_fn"
  ELSE IF from.k = "Ref" THEN "ref_from"
  ELSE IF to.k = "Ref" THEN "ref_to"
  ELSE IF IsTypeLit(from) /\ IsTypeLit(to) /\ IndexConflict(e, from, to) THEN "index_conflict"
  ELSE IF IsTypeLit(from) /\ IsTypeLit(to) THEN "type_lit"
  ELSE IF from.k = "Union" THEN "union_from"
  ELSE IF to.k = "Union" THEN "union_to"
  ELSE IF to.k = "Intersection" THEN "intersection_to"
  ELSE IF IsNum(from) /\ CanBeCastedToNumberInRhs(e, to) THEN "num_rhs"
  ELSE IF IsClass(from) /\ (IsInterface(to) \/ IsTypeLit(to)) THEN "class_veto"
  ELSE "assign"

\* castable(from, to): "true", "false", or "err" for Err(..)
RECURSIVE Castable(_, _, _)

\* a union `from` with every member required (not the code's rule)
RECURSIVE AllCastableFrom(_, _, _)
AllCastableFrom(e, froms, to) ==
  IF froms = <<>> THEN "true"
  ELSE LET c == Castable(e, Head(froms), to) IN
         IF c = "true" THEN AllCastableFrom(e, Tail(froms), to) ELSE c

\* for l in &l.types { if self.castable(l, to)? { return Ok(true) } } Ok(false)
RECURSIVE AnyCastableFrom(_, _, _)
AnyCastableFrom(e, froms, to) ==
  IF froms = <<>> THEN "false"
  ELSE LET c == Castable(e, Head(froms), to) IN
         IF c = "false" THEN AnyCastableFrom(e, Tail(froms), to) ELSE c

\* for to in &to.types { if self.castable(from, to)? { return Ok(true) } } Ok(false)
RECURSIVE AnyCastableTo(_, _, _)
AnyCastableTo(e, from, tos) ==
  IF tos = <<>> THEN "false"
  ELSE LET c == Castable(e, from, Head(tos)) IN
         IF c = "false" THEN AnyCastableTo(e, from, Tail(tos)) ELSE c

Castable(e, from, to) ==
  LET rule == CastableRule(e, from, to) IN
    CASE rule \in {"overlaps_all", "type_eq", "lit_to_keyword", "fn_to_Function", "type_lit", "num_rhs"} -> "true"
      [] rule \in {"lit_to_lit", "fn_to_fn", "index_conflict", "class_veto"} -> "false"
      [] rule = "ref_from" ->
           LET x == ExpandTopRef(from) IN IF IsErr(x) THEN "err" ELSE Castable(e, x, to)
      [] rule = "ref_to" ->
           LET x == ExpandTopRef(to) IN IF IsErr(x) THEN "err" ELSE Castable(e, from, x)
      [] rule = "union_from" -> AnyCastableFrom(e, from.ts, to)
      [] rule \in {"union_to", "intersection_to"} -> AnyCastableTo(e, from, to.ts)
      [] OTHER -> IF AssignWithOpts(e, from, to) = "Ok" THEN "true" ELSE "false"

\* has_overlap with only the first direction tried (not the code's rule)
HasOverlapOneWay(e, l, r) == IF TypeEq(l, r) THEN "true" ELSE Castable(e, l, r)

\* has_overlap(l, r): `?` returns the first direction's error before the second is tried
HasOverlap(e, l, r) ==
  IF TypeEq(l, r) THEN "true"
  ELSE LET c == Castable(e, l, r) IN
         IF c = "false" THEN Castable(e, r, l) ELSE c

-----------------------------------------------------------------------------
(* analyzer/expr/type_cast.rs: validate_type_cast *)

\* the arity test skipped (not the code's rule)
TupleArityTestSkipped(lt, rt) == FALSE

\* if lt.elems.len() != rt.elems.len() { Err(InvalidTupleCast)? }
TupleArityDiffers(lt, rt) == Len(lt.ts) # Len(rt.ts)

\* the element test inverted: the loop gives up on an element that passes (not the code's rule)
ElementFailsInverted(r) == r = "Ok"

\* if res.is_err() { all_castable = false; break; }
ElementFails(r) == r # "Ok"

\* validate_type_cast_inner(orig, casted): "Ok", the error it fails with, or
\* "Panic" when an index is out of bounds
RECURSIVE ValidateTypeCastInner(_, _, _)

\* the loop over lt.elems from position i: "Ok" when all_castable, "Fail" after a break
RECURSIVE TupleElementsCastable(_, _, _, _)
TupleElementsCastable(e, rt, lt, i) ==
  IF i > Len(lt.ts) THEN "Ok"
  ELSE IF i > Len(rt.ts) THEN "Panic"
  ELSE LET r == ValidateTypeCastInner(e, rt.ts[i], lt.ts[i]) IN
         IF r = "Panic" THEN "Panic"
         ELSE IF ElementFails(r) THEN "Fail"
         ELSE TupleElementsCastable(e, rt, lt, i + 1)

\* the match on casted: "Ok" and "InvalidTupleCast" return, "Fail" falls through
StructuralCast(e, orig, casted) ==
  IF casted.k = "Tuple" /\ orig.k = "Tuple"
  THEN IF TupleArityDiffers(casted, orig) THEN "InvalidTupleCast"
       ELSE TupleElementsCastable(e, orig, casted, 1)
  ELSE IF casted.k = "Array" /\ orig.k = "Tuple"
  THEN IF Len(orig.ts) = 0 THEN "Panic"
       ELSE IF TypeEq(orig.ts[1], casted.ts[1]) THEN "Ok" ELSE "Fail"
  ELSE "Fail"

\* the second extends check left out (not the code's rule)
ExtendsOneWayOrCastable(e, orig, casted) ==
  IF Extends(e, orig, casted) = "true" THEN "Ok"
  ELSE IF Castable(e, orig, casted) = "true" THEN "Ok"
  ELSE "NonOverlappingTypeCast"

\* the extends checks in both directions, then castable with convert_err
ExtendsOrCastable(e, orig, casted) ==
  IF Extends(e, orig, casted) = "true" THEN "Ok"
  ELSE IF Extends(e, casted, orig) = "true" THEN "Ok"
  ELSE IF Castable(e, orig, casted) = "true" THEN "Ok"
  ELSE "NonOverlappingTypeCast"

ValidateTypeCastInner(e, orig, casted) ==
  IF IsStrOrUnion(orig) /\ IsStr(casted) THEN "Ok"
  ELSE IF orig.k = "Union" /\ \E i \in 1..Len(orig.ts) : TypeEq(casted, orig.ts[i]) THEN "Ok"
  ELSE LET s == StructuralCast(e, orig, casted) IN
         IF s = "Fail" THEN ExtendsOrCastable(e, orig, casted) ELSE s

\* the accept paths validate_type_cast_inner(orig, casted) evaluates, in order,
\* up to the one it returns from
ValidateTypeCastInnerPaths(e, orig, casted) ==
  IF IsStrOrUnion(orig) /\ IsStr(casted) THEN <<"str_carve_out">>
  ELSE IF orig.k = "Union" /\ \E i \in 1..Len(orig.ts) : TypeEq(casted, orig.ts[i])
  THEN <<"str_carve_out", "union_member">>
  ELSE LET structural ==
             IF casted.k = "Tuple" /\ orig.k = "Tuple"
             THEN IF TupleArityDiffers(casted, orig) THEN <<"tuple_arity">>
                  ELSE <<"tuple_arity", "tuple_elements">>
             ELSE IF casted.k = "Array" /\ orig.k = "Tuple" THEN <<"array_first_element">>
             ELSE <<>>
           fallback ==
             IF Extends(e, orig, casted) = "true" THEN <<"extends">>
             ELSE IF Extends(e, casted, orig) = "true" THEN <<"extends", "extends_reversed">>
             ELSE <<"extends", "extends_reversed", "castable">>
       IN <<"str_carve_out", "union_member">> \o structural
            \o (IF StructuralCast(e, orig, casted) = "Fail" THEN fallback ELSE <<>>)

\* the verdict of validate_type_cast_inner with the paths it evaluated
InnerResult(verdict, paths) == Ty("Result", verdict, [i \in 1..Len(paths) |-> Ty("Path", paths[i], <<>>)])

\* the outcome of validate_type_cast: ret is Ok(casted_ty), the error of expand,
\* or a panic; reported is what .report() added to the storage
Outcome(ret, reported) == [ret |-> ret, reported |-> reported]

\* validate_type_cast that reports a failed expansion and goes on (not the code's rule)
ValidateTypeCastExpandReported(e, orig_ty, casted_ty) ==
  LET orig == Expand(orig_ty)
      casted == MakeInstanceType(casted_ty)
  IN IF IsErr(orig) THEN Outcome(casted, <<orig>>)
     ELSE LET r == ValidateTypeCastInner(e, orig, casted) IN
            IF r = "Panic" THEN Outcome(Ty("Panic", "", <<>>), <<>>)
            ELSE Outcome(casted, IF r = "Ok" THEN <<>> ELSE <<Error(r)>>)

ValidateTypeCast(e, orig_ty, casted_ty) ==
  LET orig == Expand(orig_ty)
      casted == MakeInstanceType(casted_ty)
  IN IF IsErr(orig) THEN Outcome(orig, <<>>)
     ELSE LET r == ValidateTypeCastInner(e, orig, casted) IN
            IF r = "Panic" THEN Outcome(Ty("Panic", "", <<>>), <<>>)
            ELSE Outcome(casted, IF r = "Ok" THEN <<>> ELSE <<Error(r)>>)

-----------------------------------------------------------------------------
(* Inputs of the type-cast checks *)

IndexedBy(type_ann) == TypeLit(<<Index("string", <<type_ann>>)>>)

CastAtoms ==
  { Keyword("any"), Keyword("null"), Keyword("undefined"), Keyword("boolean"), Keyword("number"),
    Keyword("string"), Keyword("bigint"),
    Lit("1"), Lit("2"), Lit("a"), Lit("b"), Lit("true"), Lit("false"), Lit("1n"), Lit("2n"),
    Function("f"), Function("g"), Interface("Function"), Interface("I"), Interface("J"), Class("C"),
    IndexedBy(Keyword("number")), IndexedBy(Keyword("string")), TypeLit(<<Property("x", <<Lit("1")>>)>>),
    Ref("RX"), Ref("RU"), Ref("RN"),
    Intersection(<<Lit("1"), Interface("I")>>) }

\* the members the unions of the castable queries are built from
UnionMembers ==
  {Keyword("null"), Lit("1"), Lit("a"), Ref("RX"), Ref("RU"), Function("f"), IndexedBy(Keyword("number"))}

CastUnions == {Union(<<x, y>>) : x \in UnionMembers, y \in UnionMembers}

CastTypes == CastAtoms \cup CastUnions

\* element types of the tuples handed to validate_type_cast
CastElems == {Keyword("number"), Keyword("string"), Union(<<Keyword("string"), Keyword("number")>>)}

CastTuples == {Tuple(es) : es \in SeqsUpTo(CastElems, MaxCastElems)}

AssertionTypes ==
  CastTuples \cup
  { Keyword("number"), Keyword("string"), Lit("a"), Lit("1"), Lit("2"),
    Union(<<Lit("a"), Lit("b")>>), Union(<<Keyword("string"), Keyword("number")>>),
    Array(Keyword("number")), Array(Keyword("string")),
    Tuple(<<Tuple(<<Keyword("number")>>)>>), Tuple(<<Tuple(<<Keyword("number"), Keyword("number")>>)>>),
    Interface("I"), Interface("J"), Class("C"), Class("D") }

OriginalTypes == AssertionTypes \cup {Ref("RX"), Ref("RU"), Tuple(<<Ref("RX")>>)}

AssertedTypes == AssertionTypes \cup {ClassDef("C"), ClassDef("D")}

-----------------------------------------------------------------------------
(* Queries of the type-cast checks *)

\* the result of castable or has_overlap, with the arm of castable that returned
BoolResult(value, rule) == Ty("Result", value, <<Ty("Rule", rule, <<>>)>>)

DoCastable ==
  /\ op = "idle"
  /\ \E from \in CastTypes, to \in CastTypes, a \in Modes, n \in {"reject", "sound"} :
       /\ op' = "castable"
       /\ args' = <<from, to>>
       /\ env' = Env(a, "sound", n)
       /\ res' = BoolResult(Castable(env', from, to), CastableRule(env', from, to))
       /\ UNCHANGED storage

DoHasOverlap ==
  /\ op = "idle"
  /\ \E l \in CastTypes, r \in CastTypes, a \in Modes :
       /\ op' = "has_overlap"
       /\ args' = <<l, r>>
       /\ env' = Env(a, "sound", "sound")
       /\ res' = BoolResult(HasOverlap(env', l, r), "")
       /\ UNCHANGED storage

DoValidateTypeCastInner ==
  /\ op = "idle"
  /\ \E orig \in AssertionTypes, casted \in AssertionTypes, a \in Modes, x \in Modes :
       /\ op' = "validate_type_cast_inner"
       /\ args' = <<orig, casted>>
       /\ env' = Env(a, x, "sound")
       /\ res' = InnerResult(ValidateTypeCastInner(env', orig, casted),
                              ValidateTypeCastInnerPaths(env', orig, casted))
       /\ UNCHANGED storage

DoValidateTypeCast ==
  /\ op = "idle"
  /\ \E orig_ty \in OriginalTypes, casted_ty \in AssertedTypes, a \in Modes, x \in Modes :
       /\ op' = "validate_type_cast"
       /\ args' = <<orig_ty, casted_ty>>
       /\ env' = Env(a, x, "sound")
       /\ LET o == ValidateTypeCast(env', orig_ty, casted_ty) IN
            /\ res' = o.ret
            /\ storage' = storage \o o.reported

NextCast == DoCastable \/ DoHasOverlap \/ DoValidateTypeCastInner \/ DoValidateTypeCast \/ Return

SpecCast == Init /\ [][NextCast]_vars

Next == NextUnions \/ NextCast

Spec == Init /\ [][Next]_vars

-----------------------------------------------------------------------------
(* Vocabulary of the properties of the flattening pass *)

\* the concrete types an element type stands for, in order, read off the
\* declared type: boolean is true | false, a union is its members' alternatives
RECURSIVE Alternatives(_)
AlternativesOfAll(types) == Concat([i \in 1..Len(types) |-> Alternatives(types[i])])

Alternatives(t) ==
  LET n == Normalize(t) IN
    IF IsErr(n) THEN <<t>>
    ELSE IF IsKwd(n, "boolean") THEN <<Lit("true"), Lit("false")>>
    ELSE IF n.k = "Union" THEN AlternativesOfAll(n.ts)
    ELSE <<t>>

IsUnionTyped(t) == LET n == Normalize(t) IN ~IsErr(n) /\ (n.k = "Union" \/ IsKwd(n, "boolean"))

\* the non-union types of a result, left to right
RECURSIVE Leaves(_)
Leaves(t) == IF t.k = "Union" THEN Concat([i \in 1..Len(t.ts) |-> Leaves(t.ts[i])]) ELSE <<t>>

\* element lists of the cartesian product, the FIRST element varying slowest
RECURSIVE LexProduct(_)
LexProduct(els) ==
  IF els = <<>> THEN << <<>> >>
  ELSE LET alts == Alternatives(Head(els))
           rest == LexProduct(Tail(els))
       IN Concat([i \in 1..Len(alts) |-> [j \in 1..Len(rest) |-> <<alts[i]>> \o rest[j]]])

\* element lists of the cartesian product, the LAST element varying slowest
RECURSIVE ColexProduct(_)
ColexProduct(els) ==
  IF els = <<>> THEN << <<>> >>
  ELSE LET alts == Alternatives(els[Len(els)])
           front == ColexProduct(SubSeq(els, 1, Len(els) - 1))
       IN Concat([i \in 1..Len(alts) |-> [j \in 1..Len(front) |-> Append(front[j], alts[i])]])

Tuples(elss) == [i \in 1..Len(elss) |-> Tuple(elss[i])]

FlattenedTuple == op = "flatten_unions_for_assignment" /\ args[1].k = "Tuple" /\ ~IsErr(res)

\* C1 as stated: the concrete tuples of the result of flattening a Tuple are
\* the cartesian product of the element unions in lexicographic order, earlier
\* elements varying slowest ([("a"|"b"), (1|2)] gives ["a",1], ["a",2], ["b",1], ["b",2]).
\* Read on the leaves of the result, so that only the order is at stake.
C1_LexicographicOrder == FlattenedTuple => Leaves(res) = Tuples(LexProduct(args[1].ts))

\* C1 amended: the concrete tuples of the result, read left to right, are the
\* cartesian product of the element unions with the LAST element varying
\* slowest and the first fastest; when exactly one element is union-typed and
\* its members are not, the result is the Union of exactly those tuples.
C1_ColexicographicOrder ==
  FlattenedTuple =>
    /\ Leaves(res) = Tuples(ColexProduct(args[1].ts))
    /\ LET els == args[1].ts
           us == {i \in 1..Len(els) : IsUnionTyped(els[i])}
       IN (Cardinality(us) = 1 /\ \A i \in us : \A m \in 1..Len(Normalize(els[i]).ts) :
                                        ~IsUnionTyped(Normalize(els[i]).ts[m]))
            => res = Union(Tuples(ColexProduct(els)))

\* [("a"|"b"), (1|2)] has been flattened: the second element varies slowest
C1_Witness ==
  /\ op = "flatten_unions_for_assignment"
  /\ args = <<Tuple(<<Union(<<Lit("a"), Lit("b")>>), Union(<<Lit("1"), Lit("2")>>)>>)>>
  /\ Leaves(res) = <<Tuple(<<Lit("a"), Lit("1")>>), Tuple(<<Lit("b"), Lit("1")>>),
                     Tuple(<<Lit("a"), Lit("2")>>), Tuple(<<Lit("b"), Lit("2")>>)>>

\* no Union anywhere in t has a member that is itself a Union
RECURSIVE NoNestedUnion(_)
NoNestedUnion(t) ==
  /\ t.k = "Union" => \A i \in 1..Len(t.ts) : t.ts[i].k # "Union"
  /\ \A i \in 1..Len(t.ts) : NoNestedUnion(t.ts[i])

\* C2: for every Tuple or TypeLit input, every Union in the result of the
\* flattening has no member that is itself a Union.
C2_NoDirectlyNestedUnion ==
  (op = "flatten_unions_for_assignment" /\ args[1].k \in {"Tuple", "TypeLit"}) => NoNestedUnion(res)

\* C3: when flattening an n-element Tuple produces a Union, every member of
\* that Union is a Tuple with exactly n elements.
C3_ArityPreserved ==
  (FlattenedTuple /\ res.k = "Union") =>
    \A i \in 1..Len(res.ts) : res.ts[i].k = "Tuple" /\ Len(res.ts[i].ts) = Len(args[1].ts)

\* the candidate is a Tuple or TypeLit none of whose components is union- or boolean-typed
NoUnionTypedComponent(c) ==
  /\ c.k \in {"Tuple", "TypeLit"}
  /\ \A i \in 1..Len(c.ts) :
       IF c.k = "Tuple" THEN ~IsUnionTyped(c.ts[i])
       ELSE \A j \in 1..Len(c.ts[i].ts) : ~IsUnionTyped(c.ts[i].ts[j])

\* C4: assign_to_union returns None exactly when the flattened candidate is
\* not a Union, which is so whenever the candidate has no union- or
\* boolean-typed component; otherwise it returns Some(verdict), the verdict
\* being that of assign_with_opts for the target and the flattened candidate.
C4_AssignToUnionApplicability ==
  op = "assign_to_union" =>
    LET flat == FlattenUnionsForAssignment(args[2]) IN
      /\ res.k = "None" <=> ~(~IsErr(flat) /\ flat.k = "Union")
      /\ res.k # "None" => res = SomeResult(AssignWithOpts(env, args[1], flat), args[1], flat)
      /\ NoUnionTypedComponent(args[2]) => res.k = "None"

\* rhs = [("b" | "a"), 1] of the doc comment, accepted against its lhs
C4_Witness ==
  /\ op = "assign_to_union"
  /\ env.assign = "sound"
  /\ args[2] = Tuple(<<Union(<<Lit("a"), Lit("b")>>), Lit("1")>>)
  /\ res.k = "Some"
  /\ res.v = "Ok"
  /\ res.ts[2] = Union(<<Tuple(<<Lit("a"), Lit("1")>>), Tuple(<<Lit("b"), Lit("1")>>)>>)

-----------------------------------------------------------------------------
(* Properties of the type-cast checks *)

\* a || b on castable results, `?` returning the first error
OrElse(x, y) == IF x = "false" THEN y ELSE x

C8_InvalidTupleCast ==
  (/\ op = "validate_type_cast_inner"
   /\ args[1].k = "Tuple"
   /\ args[2].k = "Tuple"
   /\ Len(args[1].ts) # Len(args[2].ts))
    => res.v = "InvalidTupleCast"

\* a 3-element asserted tuple against a 2-element original
C8_Witness ==
  /\ op = "validate_type_cast_inner"
  /\ args = <<Tuple(<<Keyword("number"), Keyword("string")>>),
              Tuple(<<Keyword("number"), Keyword("string"), Keyword("number")>>)>>
  /\ res.v = "InvalidTupleCast"

NumberStringOrNumber == Tuple(<<Keyword("number"), Union(<<Keyword("string"), Keyword("number")>>)>>)

NumberNumber == Tuple(<<Keyword("number"), Keyword("number")>>)

\* C9: for Tuples orig and casted of equal arity, validate_type_cast_inner
\* accepts whenever it accepts (orig[i], casted[i]) at every position i; and
\* validate_type_cast of [number, string|number] to [number, number] returns
\* the asserted type with no diagnostic.
C9_TupleCastElementWise ==
  /\ (/\ op = "validate_type_cast_inner"
      /\ args[1].k = "Tuple"
      /\ args[2].k = "Tuple"
      /\ Len(args[1].ts) = Len(args[2].ts)
      /\ \A i \in 1..Len(args[1].ts) : ValidateTypeCastInner(env, args[1].ts[i], args[2].ts[i]) = "Ok")
       => res.v = "Ok"
  /\ (op = "validate_type_cast" /\ args = <<NumberStringOrNumber, NumberNumber>>)
       => res = NumberNumber /\ storage = <<>>

\* the doc comment's cast, with collaborators that accept nothing
C9_Witness ==
  /\ op = "validate_type_cast"
  /\ args = <<NumberStringOrNumber, NumberNumber>>
  /\ env.assign = "reject"
  /\ env.extends = "reject"
  /\ res = NumberNumber
  /\ storage = <<>>

SameKindDifferentValue(from, to) ==
  from.k = "Lit" /\ to.k = "Lit" /\ LitKind(from) = LitKind(to) /\ from.v # to.v

\* C10: castable(from, to) is false whenever from and to are literals of the
\* same kind (number, string, boolean, bigint) with different values, decided
\* by the literal-to-literal arm without consulting a later rule.
C10_LiteralVeto ==
  (op = "castable" /\ SameKindDifferentValue(args[1], args[2]))
    => res.v = "false" /\ res.ts[1].v = "lit_to_lit"

\* the paths recorded in the result of a validate_type_cast_inner query
Tried(path) == \E i \in 1..Len(res.ts) : res.ts[i].v = path

LastTried == res.ts[Len(res.ts)].v

InnerFailed == op = "validate_type_cast_inner" /\ res.v \in {"InvalidTupleCast", "NonOverlappingTypeCast"}

\* the type mentions a reference that cannot be resolved
RECURSIVE MentionsUnresolvable(_)
MentionsUnresolvable(t) ==
  \/ t.k = "Ref" /\ IsErr(RefTarget(t.v))
  \/ \E i \in 1..Len(t.ts) : MentionsUnresolvable(t.ts[i])

C12_ArrayAgainstTuple ==
  (op = "validate_type_cast_inner" /\ args[2].k = "Array" /\ args[1].k = "Tuple") =>
    /\ res.v # "Panic"
    /\ StructuralCast(env, args[1], args[2]) = "Ok"
         <=> (Len(args[1].ts) > 0 /\ TypeEq(args[1].ts[1], args[2].ts[1]))

=============================================================================
